---- MODULE Spec2Model ----
(***************************************************************************)
(* Model of the quicksilver roguelike (src/src/main.rs): the map           *)
(* generator, the specs World with its three component storages, and the   *)
(* two frame callbacks Game::update and Game::draw.                        *)
(*                                                                         *)
(* An Option<T> is a sequence: <<>> is None and <<v>> is Some(v).          *)
(* An entity is its index in the World (1-based, in creation order).       *)
(***************************************************************************)
EXTENDS Integers, Sequences, FiniteSets, TLC

VARIABLES
    map_size,   \* Game.map_size
    map,        \* Game.map: Vec<Tile>
    world,      \* Game.world: the Pos, Health and Render storages
    player,     \* Game.player
    text,       \* Game.text: the state of the Asset<GameText>
    inventory,  \* GameText.inventory: which text the inventory image shows
    tileset,    \* Game.tileset: the state of the Asset<HashMap<char, Image>>
    closed,     \* window.close() has been called
    \* The record of the last callback call:
    op,         \* which one: "new", "update" or "draw"
    keys,       \* the keyboard it read (update; idle for the others)
    result,     \* what it returned, "Ok" or "Err"; "Panic" if it panicked
    steps,      \* the statements of update it executed, in order; for
                \* draw, "clear" once window.clear has succeeded
    polls,      \* what each of its Asset::execute calls found
    cmds        \* its window.draw calls, in order

vars == <<map_size, map, world, player, text, inventory, tileset, closed,
          keys, op, result, steps, polls, cmds>>

----------------------------------------------------------------------------
(* Bounds of the model.                                                    *)

\* The player is followed this many cells away from its start on each axis.
MaxWalk == 1
\* Largest side of a generated map in SpecMap.
MaxSide == 10
\* Largest Health.max and Health.current in SpecDraw.
MaxHealth == 5
\* Side of the (square) map in SpecDraw.
DrawSide == 3

----------------------------------------------------------------------------
(* Program constants.                                                      *)

MapWidth == 20
MapHeight == 15
TileSizePx == 24
OffsetXPx == 50
OffsetYPx == 120
ScreenWidth == 800
ScreenHeight == 600
FullHealthWidthPx == 100
PlayerStartX == 5
PlayerStartY == 3
PlayerMaxHealth == 5
PlayerCurrentHealth == 3

\* game_glyphs = "#@g.%": the keys of the tileset once it is loaded.
GameGlyphs == {"#", "@", "g", ".", "%"}

None == <<>>
Some(v) == <<v>>
IsSome(o) == o # <<>>
Unwrap(o) == o[1]

Vector(x, y) == [x |-> x, y |-> y]

----------------------------------------------------------------------------
(* f32 arithmetic of the health bar.  A finite non-negative f32 is         *)
(* m * 2^e with 2^23 <= m < 2^24 (or m = 0); cls tells it from inf and NaN.*)

F32Zero == [cls |-> "num", m |-> 0, e |-> 0]
F32Inf == [cls |-> "inf", m |-> 0, e |-> 0]
F32NaN == [cls |-> "nan", m |-> 0, e |-> 0]

\* Number of bits of p > 0.
BitLen(p) == CHOOSE b \in 1..31 : 2^(b-1) <= p /\ (b = 31 \/ p < 2^b)

\* p / d rounded to the nearest integer, ties to even.
RoundHalfEven(p, d) ==
    LET q == p \div d
        r == p % d
    IN  IF 2*r > d \/ (2*r = d /\ q % 2 = 1) THEN q + 1 ELSE q

\* The f32 nearest to p * 2^e, for an integer 0 <= p < 2^31.
F32Round(p, e) ==
    IF p = 0 THEN F32Zero
    ELSE LET b == BitLen(p)
         IN  IF b <= 24
             THEN [cls |-> "num", m |-> p * 2^(24-b), e |-> e - (24-b)]
             ELSE LET s == b - 24
                      q == RoundHalfEven(p, 2^s)
                  IN  IF q = 2^24
                      THEN [cls |-> "num", m |-> 2^23, e |-> e + s + 1]
                      ELSE [cls |-> "num", m |-> q, e |-> e + s]

\* `n as f32` for 0 <= n < 2^24 (exact).
F32FromInt(n) == F32Round(n, 0)

\* `c as f32 / d as f32` for integers 0 <= c, d <= 127.
F32DivInt(c, d) ==
    IF d = 0 THEN (IF c = 0 THEN F32NaN ELSE F32Inf)
    ELSE IF c = 0 THEN F32Zero
    ELSE LET k == CHOOSE j \in 0..30 :
                      /\ c * 2^j >= d * 2^23
                      /\ (j = 0 \/ c * 2^(j-1) < d * 2^23)
             q == RoundHalfEven(c * 2^k, d)
         IN  IF q = 2^24
             THEN [cls |-> "num", m |-> 2^23, e |-> 1 - k]
             ELSE [cls |-> "num", m |-> q, e |-> -k]

\* `a * (n as f32)` for an f32 a >= 0 and an integer 1 <= n <= 127.
F32MulInt(a, n) ==
    IF a.cls # "num" THEN a ELSE F32Round(a.m * n, a.e)

\* The f32 a is exactly the rational num / den (den > 0, a finite).
F32IsRatio(a, num, den) ==
    /\ a.cls = "num"
    /\ IF a.e >= 0 THEN a.m * 2^(a.e) * den = num
                   ELSE a.m * den = num * 2^(-a.e)

----------------------------------------------------------------------------
(* generate_map                                                            *)

\* Mutant of IsBorder: the far walls tested at width and height, one past
\* the last column and row.
IsBorderOffByOne(x, y, width, height) ==
    x = 0 \/ x = width \/ y = 0 \/ y = height

\* The border test of generate_map, on usize values (width, height >= 1
\* wherever the loop body runs).
IsBorder(x, y, width, height) ==
    x = 0 \/ x = width - 1 \/ y = 0 \/ y = height - 1

Tile(x, y, width, height) ==
    [pos |-> Vector(x, y),
     glyph |-> IF IsBorder(x, y, width, height) THEN "#" ELSE ".",
     color |-> "BLACK"]

\* for x in 0..width { for y in 0..height { map.push(tile) } }: the tile of
\* (x, y) is pushed at index x * height + y (1-based: + 1).
generate_map(size) ==
    LET width == size.x
        height == size.y
    IN  [i \in 1..(width * height) |->
            Tile((i - 1) \div height, (i - 1) % height, width, height)]

----------------------------------------------------------------------------
(* Components and the World                                                *)

Pos(x, y) == Vector(x, y)

\* Mutant of HealthNew: current starts one above max.
HealthNewOverfull(value) == [max |-> value, current |-> value + 1]

\* Health::new
HealthNew(value) == [max |-> value, current |-> value]

Render(glyph, color) == [glyph |-> glyph, color |-> color]

\* World::new followed by the three register calls: no entity, empty storages.
WorldNew == [pos |-> <<>>, health |-> <<>>, render |-> <<>>]

\* create_entity().with(..)...build(): the new entity takes the next index;
\* each argument is Some(component) or None.
CreateEntity(w, pos, health, render) ==
    [pos |-> Append(w.pos, pos),
     health |-> Append(w.health, health),
     render |-> Append(w.render, render)]

\* storage.get(entity)
Get(storage, entity) ==
    IF entity \in 1..Len(storage) THEN storage[entity] ELSE None

generate_entities(w) ==
    LET w1 == CreateEntity(w, Some(Pos(9, 6)), Some(HealthNew(1)),
                           Some(Render("g", "RED")))
        w2 == CreateEntity(w1, Some(Pos(2, 4)), Some(HealthNew(1)),
                           Some(Render("g", "RED")))
        w3 == CreateEntity(w2, Some(Pos(7, 5)), None,
                           Some(Render("%", "PURPLE")))
        w4 == CreateEntity(w3, Some(Pos(4, 8)), None,
                           Some(Render("%", "PURPLE")))
    IN  w4

\* The world and the player entity built by Game::new.
GameWorld ==
    CreateEntity(generate_entities(WorldNew),
                 Some(Pos(PlayerStartX, PlayerStartY)),
                 Some([max |-> PlayerMaxHealth, current |-> PlayerCurrentHealth]),
                 Some(Render("@", "BLUE")))

GamePlayer == Len(GameWorld.pos)

\* world.maintain(): applies the deferred deletions and insertions; the game
\* queues none, so the storages are left as they are.
Maintain(w) == w

----------------------------------------------------------------------------
(* Input                                                                   *)

ButtonState == {"Pressed", "Held", "Released", "NotPressed"}
DirKeys == {"Left", "Right", "Up", "Down"}
Keys == DirKeys \cup {"Escape", "X"}

\* ButtonState::is_down
is_down(s) == s \in {"Pressed", "Held"}

\* Mutant of IsPressed: the test is_down() in place of `== Pressed`, so a
\* held key moves the player on every update.
IsPressedOrHeld(s) == s \in {"Pressed", "Held"}

\* window.keyboard()[key] == Pressed
IsPressed(s) == s = "Pressed"

IdleKeyboard == [k \in Keys |-> "NotPressed"]

\* Keyboards of the frame loop: at most one direction key is tapped, Escape
\* and X are held or idle.
FrameKeyboards ==
    {kb \in [Keys -> ButtonState] :
        /\ \A k \in DirKeys : kb[k] \in {"Pressed", "NotPressed"}
        /\ \A j, k \in DirKeys : kb[j] = "Pressed" /\ kb[k] = "Pressed" => j = k
        /\ kb["Escape"] \in {"Held", "NotPressed"}
        /\ kb["X"] \in {"Held", "NotPressed"}}

\* Keyboards of the movement check: every direction key tapped, held or
\* idle, in every combination; Escape and X idle.
MoveKeyboards ==
    {kb \in [Keys -> ButtonState] :
        /\ \A k \in DirKeys : kb[k] \in {"Pressed", "Held", "NotPressed"}
        /\ kb["Escape"] = "NotPressed" /\ kb["X"] = "NotPressed"}

----------------------------------------------------------------------------
(* Assets.  An Asset is "Loading" until a poll of its future finds it      *)
(* ready ("Loaded"); a poll that finds the load failed leaves it "Failed", *)
(* and a poll that panics leaves it "Panicked".                            *)

\* What one poll of the future of an asset in state a can find.
PollOutcomes(a) ==
    IF a = "Loading" THEN {"NotReady", "Ready", "Err"} ELSE {"None"}

\* What one poll of the future of the tileset can find: its closure renders
\* the glyphs with `.expect(..)`, so a font that loads and then fails to
\* render makes the poll panic.
TilesetPollOutcomes(a) ==
    IF a = "Loading" THEN {"NotReady", "Ready", "Err", "Panic"} ELSE {"None"}

\* Asset::execute polls the future first: the state the asset is in when
\* execute chooses between running the closure and doing nothing.
Poll(a, outcome) ==
    IF a # "Loading" THEN a
    ELSE CASE outcome = "Ready" -> "Loaded"
           [] outcome = "Err" -> "Failed"
           [] outcome = "Panic" -> "Panicked"
           [] OTHER -> "Loading"

\* How an execute call that found its asset in state a ends: the error of a
\* failed load is returned by `?`, a panic unwinds out of the callback.
ExecuteResult(a) ==
    CASE a = "Failed" -> "Err"
      [] a = "Panicked" -> "Panic"
      [] OTHER -> "Ok"

InventoryStart == "Inventory:\n[A] Sword\n[B] Shield\n[C] Darts"
InventorySwapped == "Inventory:\n[A] Dagger\n[B] Buckler"

----------------------------------------------------------------------------
(* Game::update                                                            *)

\* 1 if the key is in the Pressed state, else 0.
Step(kb, key) == IF IsPressed(kb[key]) THEN 1 ELSE 0

\* Mutant of MovePlayer: the keys move every entity that has a Pos, not the
\* player alone.
MovePlayerAll(w, p, kb) ==
    [w EXCEPT !.pos =
        [e \in 1..Len(w.pos) |->
            IF IsSome(w.pos[e])
            THEN Some(Vector(
                     w.pos[e][1].x - Step(kb, "Left") + Step(kb, "Right"),
                     w.pos[e][1].y - Step(kb, "Up") + Step(kb, "Down")))
            ELSE None]]

\* The `if let Some(mut pos) = ...get_mut(self.player)` block: the four
\* independent tests, each adding or subtracting 1.0.
MovePlayer(w, p, kb) ==
    LET got == Get(w.pos, p)
    IN  IF IsSome(got)
        THEN LET pos == Unwrap(got)
                 x1 == pos.x - Step(kb, "Left")
                 x2 == x1 + Step(kb, "Right")
                 y1 == pos.y - Step(kb, "Up")
                 y2 == y1 + Step(kb, "Down")
             IN  [w EXCEPT !.pos[p] = Some(Vector(x2, y2))]
        ELSE w

\* One call of update on the game g with keyboard kb.  `poll` is what the
\* poll inside text.execute finds and `render` whether font.render succeeds;
\* both are read only on the paths that reach them.
update(g, kb, poll, render) ==
    LET moved == IsSome(Get(g.world.pos, g.player))
        w1 == MovePlayer(g.world, g.player, kb)
        esc == is_down(kb["Escape"])
        x == is_down(kb["X"])
        t1 == IF x THEN Poll(g.text, poll) ELSE g.text
        renders == x /\ t1 = "Loaded"
        failed == x /\ (t1 = "Failed" \/ (renders /\ render = "Err"))
        s1 == IF moved THEN <<"pos">> ELSE <<>>
        s2 == IF esc THEN Append(s1, "close") ELSE s1
        s3 == IF x THEN Append(s2, "execute") ELSE s2
        s4 == IF renders /\ ~failed THEN Append(s3, "inventory") ELSE s3
    IN  [world |-> IF failed THEN w1 ELSE Maintain(w1),
         text |-> t1,
         inventory |-> IF renders /\ ~failed THEN InventorySwapped
                       ELSE g.inventory,
         closed |-> g.closed \/ esc,
         steps |-> IF failed THEN s4 ELSE Append(s4, "maintain"),
         polls |-> IF x THEN <<t1>> ELSE <<>>,
         result |-> IF failed THEN "Err" ELSE "Ok"]

----------------------------------------------------------------------------
(* Game::draw                                                              *)

\* Mutant of Layers: the health bar is drawn before the map and the
\* entities.
LayersHealthFirst == <<"title", "mononoki_info", "square_info", "health",
                       "map", "entities", "inventory">>

\* The layers of draw, in the order of its statements.
Layers == <<"title", "mononoki_info", "square_info", "map", "entities",
            "health", "inventory">>

TextLayers == {"title", "mononoki_info", "square_info", "inventory"}
TilesetLayers == {"map", "entities"}

PixelPos(pos) ==
    Vector(OffsetXPx + pos.x * TileSizePx, OffsetYPx + pos.y * TileSizePx)

\* health_bar_pos_px
HealthBarPos(g) == Vector(OffsetXPx + g.map_size.x * TileSizePx, OffsetYPx)

\* tileset.get(&glyph) on the loaded tileset
TilesetHas(glyph) == glyph \in GameGlyphs

\* The window.draw calls of one text.execute closure.
TextCmds(g, layer) ==
    CASE layer = "title" ->
           <<[layer |-> layer, center |-> Vector(ScreenWidth \div 2, 40),
              image |-> "Quicksilver Roguelike"]>>
      [] layer = "mononoki_info" ->
           <<[layer |-> layer, at |-> Vector(2, ScreenHeight - 60),
              image |-> "Mononoki font by Matthias Tellen, terms: SIL Open Font License 1.1"]>>
      [] layer = "square_info" ->
           <<[layer |-> layer, at |-> Vector(2, ScreenHeight - 30),
              image |-> "Square font by Wouter Van Oortmerssen, terms: CC BY 3.0"]>>
      [] layer = "inventory" ->
           <<[layer |-> layer,
              at |-> Vector(HealthBarPos(g).x, HealthBarPos(g).y + TileSizePx),
              image |-> g.inventory]>>

\* The window.draw call of one tile of the map.
TileCmd(tile) ==
    [layer |-> "map", at |-> PixelPos(tile.pos), glyph |-> tile.glyph,
     color |-> tile.color]

\* tileset.get(&tile.glyph) finds an image.
TileHasImage(tile) == TilesetHas(tile.glyph)

\* for tile in map.iter(): one command per tile whose glyph is in the
\* tileset, in the order of the map.
MapCmds(tiles) ==
    LET found == SelectSeq(tiles, TileHasImage)
    IN  [i \in 1..Len(found) |-> TileCmd(found[i])]

\* Mutant of Joined: the join also asks for the Health storage.
JoinedWithHealth(w, e) ==
    IsSome(Get(w.pos, e)) /\ IsSome(Get(w.render, e))
        /\ IsSome(Get(w.health, e))

\* (&pos_storage, &render_storage).join(): an entity is yielded iff it has
\* both components.
Joined(w, e) == IsSome(Get(w.pos, e)) /\ IsSome(Get(w.render, e))

RECURSIVE EntityCmds(_, _)
\* The join loop, in entity-index order.
EntityCmds(w, e) ==
    IF e > Len(w.pos) THEN <<>>
    ELSE LET rest == EntityCmds(w, e + 1)
         IN  IF Joined(w, e) /\ TilesetHas(Unwrap(w.render[e]).glyph)
             THEN <<[layer |-> "entities",
                     at |-> PixelPos(Unwrap(w.pos[e])),
                     glyph |-> Unwrap(w.render[e]).glyph,
                     color |-> Unwrap(w.render[e]).color]>> \o rest
             ELSE rest

\* current_health_width_px
CurrentHealthWidth(h) ==
    F32MulInt(F32DivInt(h.current, h.max), FullHealthWidthPx)

\* The `if let Some(player_health) = health_storage.get(self.player)` block.
HealthCmds(g) ==
    LET got == Get(g.world.health, g.player)
    IN  IF IsSome(got)
        THEN <<[layer |-> "health_full", at |-> HealthBarPos(g),
                width |-> F32FromInt(FullHealthWidthPx),
                height |-> TileSizePx, color |-> "RED", alpha |-> "0.5"],
               [layer |-> "health_current", at |-> HealthBarPos(g),
                width |-> CurrentHealthWidth(Unwrap(got)),
                height |-> TileSizePx, color |-> "RED", alpha |-> "1.0"]>>
        ELSE <<>>

\* One layer of draw on the running state st = [text, tileset, cmds, polls,
\* result]: an execute call polls its asset, returns the error of a failed
\* load, runs its closure on a loaded asset and does nothing on a loading one.
DrawLayer(g, layer, st, poll) ==
    IF layer \in TextLayers
    THEN LET t1 == Poll(st.text, poll)
         IN  [st EXCEPT !.text = t1,
                        !.polls = Append(@, t1),
                        !.result = ExecuteResult(t1),
                        !.cmds = IF t1 = "Loaded" THEN @ \o TextCmds(g, layer)
                                 ELSE @]
    ELSE IF layer \in TilesetLayers
    THEN LET t1 == Poll(st.tileset, poll)
             drawn == IF layer = "map" THEN MapCmds(g.map)
                      ELSE EntityCmds(g.world, 1)
         IN  [st EXCEPT !.tileset = t1,
                        !.polls = Append(@, t1),
                        !.result = ExecuteResult(t1),
                        !.cmds = IF t1 = "Loaded" THEN @ \o drawn ELSE @]
    ELSE [st EXCEPT !.cmds = @ \o HealthCmds(g)]

RECURSIVE DrawFrom(_, _, _, _)
\* The layers from the i-th on; a `?` that sees an error returns at once,
\* and a panic ends the call.
DrawFrom(g, i, st, o) ==
    IF i > Len(Layers) \/ st.result # "Ok" THEN st
    ELSE DrawFrom(g, i + 1, DrawLayer(g, Layers[i], st, o[i]), o)

\* One call of draw on the game g; `clear` is what window.clear returns and
\* o[i] what the poll of layer i finds.  `window.clear(Color::WHITE)?`
\* returns its error before the first execute; otherwise the frame starts
\* with no command.
draw(g, clear, o) ==
    IF clear = "Err"
    THEN [text |-> g.text, tileset |-> g.tileset, cmds |-> <<>>,
          polls |-> <<>>, steps |-> <<>>, result |-> "Err"]
    ELSE DrawFrom(g, 1,
                  [text |-> g.text, tileset |-> g.tileset, cmds |-> <<>>,
                   polls |-> <<>>, steps |-> <<"clear">>, result |-> "Ok"], o)

----------------------------------------------------------------------------
(* The state machine                                                       *)

\* The map built by Game::new.
GameMap == generate_map(Vector(MapWidth, MapHeight))

\* The fields of Game, as one value.
Game ==
    [map_size |-> map_size, map |-> map, world |-> world, player |-> player,
     text |-> text, inventory |-> inventory, tileset |-> tileset,
     closed |-> closed]

\* Game::new: both assets are created with their load pending.
Init ==
    /\ map_size = Vector(MapWidth, MapHeight)
    /\ map = GameMap
    /\ world = GameWorld
    /\ player = GamePlayer
    /\ text = "Loading"
    /\ inventory = InventoryStart
    /\ tileset = "Loading"
    /\ closed = FALSE
    /\ keys = IdleKeyboard
    /\ op = "new"
    /\ result = "Ok"
    /\ steps = <<>>
    /\ polls = <<>>
    /\ cmds = <<>>

\* The player is within MaxWalk cells of its start on both axes.
InWalk(w, p) ==
    LET got == Get(w.pos, p)
    IN  IsSome(got) =>
            /\ Unwrap(got).x \in (PlayerStartX - MaxWalk)..(PlayerStartX + MaxWalk)
            /\ Unwrap(got).y \in (PlayerStartY - MaxWalk)..(PlayerStartY + MaxWalk)

\* One update call with a keyboard of KB.  A callback that returned an error
\* is the last one: the default State::handle_error ends the program.
UpdateIn(KB) ==
    /\ result = "Ok"
    /\ \E kb \in KB :
       \E poll \in (IF is_down(kb["X"]) THEN PollOutcomes(text) ELSE {"None"}) :
       \E render \in (IF is_down(kb["X"]) /\ Poll(text, poll) = "Loaded"
                      THEN {"Ok", "Err"} ELSE {"None"}) :
          LET u == update(Game, kb, poll, render)
          IN  /\ InWalk(u.world, player)
              /\ world' = u.world
              /\ text' = u.text
              /\ inventory' = u.inventory
              /\ closed' = u.closed
              /\ keys' = kb
              /\ op' = "update"
              /\ result' = u.result
              /\ steps' = u.steps
              /\ polls' = u.polls
              /\ cmds' = <<>>
              /\ UNCHANGED <<map_size, map, player, tileset>>

Update == UpdateIn(FrameKeyboards)

Move == UpdateIn(MoveKeyboards)

\* The outcomes S of a poll that is reached only when window.clear succeeds.
AfterClear(clear, S) == IF clear = "Ok" THEN S ELSE {"None"}

\* One draw call: window.clear, then the six execute calls poll in turn.
Draw ==
    /\ result = "Ok"
    /\ \E clear \in {"Ok", "Err"} :
       \E o1 \in AfterClear(clear, PollOutcomes(text)) :
       \E o2 \in AfterClear(clear, PollOutcomes(Poll(text, o1))) :
       \E o3 \in AfterClear(clear, PollOutcomes(Poll(Poll(text, o1), o2))) :
       \E o4 \in AfterClear(clear, TilesetPollOutcomes(tileset)) :
       \E o5 \in AfterClear(clear, TilesetPollOutcomes(Poll(tileset, o4))) :
       \E o7 \in AfterClear(clear,
                     PollOutcomes(Poll(Poll(Poll(text, o1), o2), o3))) :
          LET d == draw(Game, clear, <<o1, o2, o3, o4, o5, "None", o7>>)
          IN  /\ text' = d.text
              /\ tileset' = d.tileset
              /\ op' = "draw"
              /\ result' = d.result
              /\ steps' = d.steps
              /\ polls' = d.polls
              /\ cmds' = d.cmds
              /\ keys' = IdleKeyboard
              /\ UNCHANGED <<map_size, map, world, player, inventory, closed>>

Next == Update \/ Draw

\* The frame loop of the game.
Spec == Init /\ [][Next]_vars

\* Movement alone, over every state of the four direction keys.
SpecMove == Init /\ [][Move]_vars

----------------------------------------------------------------------------
(* draw as a function of the game: SpecDraw starts from every game of a    *)
(* bounded family and applies draw.                                        *)

HealthValues ==
    {h \in [max : 0..MaxHealth, current : 0..MaxHealth] :
        h.current <= h.max \/ h.max = 0}

PlayerOptions ==
    [pos : {Some(Pos(1, 1))},
     health : {None} \cup {Some(h) : h \in HealthValues},
     render : {Some(Render("@", "BLUE"))}]

OtherOptions ==
    [pos : {None, Some(Pos(2, 0))},
     health : {None, Some(HealthNew(1))},
     render : {None, Some(Render("g", "RED")), Some(Render("z", "RED"))}]

InitDraw ==
    /\ map_size = Vector(DrawSide, DrawSide)
    /\ map = generate_map(Vector(DrawSide, DrawSide))
    /\ \E a \in OtherOptions, b \in PlayerOptions :
          world = CreateEntity(
                      CreateEntity(WorldNew, a.pos, a.health, a.render),
                      b.pos, b.health, b.render)
    /\ player = 2
    /\ text \in {"Loading", "Loaded"}
    /\ inventory = InventoryStart
    /\ tileset \in {"Loading", "Loaded"}
    /\ closed = FALSE
    /\ keys = IdleKeyboard
    /\ op = "new"
    /\ result = "Ok"
    /\ steps = <<>>
    /\ polls = <<>>
    /\ cmds = <<>>

SpecDraw == InitDraw /\ [][Draw]_vars

----------------------------------------------------------------------------
(* generate_map as a function of the size: SpecMap regenerates the map for *)
(* every size of a bounded family.                                         *)

GenerateMap ==
    /\ \E w \in 0..MaxSide, h \in 0..MaxSide :
          /\ map_size' = Vector(w, h)
          /\ map' = generate_map(Vector(w, h))
    /\ op' = "generate_map"
    /\ UNCHANGED <<world, player, text, inventory, tileset, closed, keys,
                   result, steps, polls, cmds>>

SpecMap == Init /\ [][GenerateMap]_vars

----------------------------------------------------------------------------
(* Claims                                                                  *)

\* The commands of the last draw call that belong to one layer.
CmdsOf(layer) == SelectSeq(cmds, LAMBDA c : c.layer = layer)

PlayerPos == Unwrap(world.pos[player])

\* C1: one update call moves the player by (right - left, down - up), where
\* each term is 1 iff that key is in the Pressed state: Left and Right
\* together leave x unchanged, no axis changes by more than 1, and from
\* (5,3) a frame with only Left pressed gives (4,3).
C1_Movement ==
    [][op' = "update" =>
         LET kb == keys'
             p == Unwrap(world.pos[player])
             q == Unwrap(world'.pos[player])
             left == IF kb["Left"] = "Pressed" THEN 1 ELSE 0
             right == IF kb["Right"] = "Pressed" THEN 1 ELSE 0
             up == IF kb["Up"] = "Pressed" THEN 1 ELSE 0
             down == IF kb["Down"] = "Pressed" THEN 1 ELSE 0
         IN  /\ q.x = p.x + right - left
             /\ q.y = p.y + down - up
             /\ q.x - p.x \in {-1, 0, 1}
             /\ q.y - p.y \in {-1, 0, 1}
             /\ (left = 1 /\ right = 1 => q.x = p.x)
             /\ (p = Vector(5, 3) /\ left = 1 /\ right + up + down = 0
                   => q = Vector(4, 3))]_vars

\* An update with Left, Right and Up all pressed and Down held has moved the
\* player from (5,3) one cell up and not sideways.
C1_Witness ==
    /\ op = "update"
    /\ keys["Left"] = "Pressed" /\ keys["Right"] = "Pressed"
    /\ keys["Up"] = "Pressed" /\ keys["Down"] = "Held"
    /\ PlayerPos = Vector(5, 2)

\* C2: when the player's Health has max = 0, draw emits neither rectangle of
\* the health bar.  (Game::new gives the player Health 3 of 5 and no callback
\* writes a Health, so no state of Spec has max = 0; among the games of
\* SpecDraw those with max = 0 do get both rectangles.)
C2_ZeroMaxSkipsHealthBar ==
    (/\ op = "draw"
     /\ IsSome(world.health[player])
     /\ Unwrap(world.health[player]).max = 0)
        => \A i \in 1..Len(cmds) :
              cmds[i].layer \notin {"health_full", "health_current"}

\* C3: for a Health with max > 0 and 0 <= current <= max a completed draw
\* emits a backing rectangle of width 100 and a current rectangle of width
\* exactly 100 * current / max (60 for current 3 of max 5).
C3_HealthBarWidth ==
    (/\ op = "draw" /\ result = "Ok"
     /\ IsSome(world.health[player])
     /\ Unwrap(world.health[player]).max > 0
     /\ Unwrap(world.health[player]).current \in
            0..Unwrap(world.health[player]).max)
        => LET h == Unwrap(world.health[player])
               full == CmdsOf("health_full")
               current == CmdsOf("health_current")
           IN  /\ Len(full) = 1 /\ Len(current) = 1
               /\ F32IsRatio(full[1].width, 100, 1)
               /\ F32IsRatio(current[1].width, 100 * h.current, h.max)
               /\ (h.current = 3 /\ h.max = 5 =>
                      F32IsRatio(current[1].width, 60, 1))

\* The place of a command's layer in the layering of the claim.
C4_Rank(layer) ==
    CASE layer = "title" -> 1
      [] layer = "mononoki_info" -> 2
      [] layer = "square_info" -> 3
      [] layer = "map" -> 4
      [] layer = "entities" -> 5
      [] layer = "health_full" -> 6
      [] layer = "health_current" -> 7
      [] layer = "inventory" -> 8

\* C4: the commands of a draw call follow the layering title, Mononoki
\* line, Square line, map tiles, entities, health backing, health current,
\* inventory: no command of a later layer precedes one of an earlier layer,
\* and only the map and entity layers hold more than one command.
C4_LayerOrder ==
    \A i \in 1..(Len(cmds) - 1) :
        /\ C4_Rank(cmds[i].layer) <= C4_Rank(cmds[i+1].layer)
        /\ (cmds[i].layer = cmds[i+1].layer =>
               cmds[i].layer \in {"map", "entities"})

\* A draw with both assets loaded has emitted every layer: 3 text lines, 300
\* tiles, 5 entities, 2 rectangles and the inventory.
C4_Witness ==
    /\ op = "draw"
    /\ Len(cmds) = 311
    /\ \A l \in {"title", "mononoki_info", "square_info", "map", "entities",
                 "health_full", "health_current", "inventory"} :
           Len(CmdsOf(l)) > 0

\* C5: for a size (w, h) with w, h >= 3 the map has w * h tiles, every
\* coordinate of the grid is the position of exactly one tile, and a tile is
\* '#' iff it lies on the border and '.' otherwise.
C5_MapShape ==
    LET w == map_size.x
        h == map_size.y
    IN  (w >= 3 /\ h >= 3) =>
          /\ Len(map) = w * h
          /\ \A x \in 0..(w - 1), y \in 0..(h - 1) :
                Cardinality({i \in 1..Len(map) : map[i].pos = Vector(x, y)}) = 1
          /\ \A i \in 1..Len(map) :
                LET t == map[i]
                    border == \/ t.pos.x = 0 \/ t.pos.x = w - 1
                              \/ t.pos.y = 0 \/ t.pos.y = h - 1
                IN  /\ t.glyph \in {"#", "."}
                    /\ (t.glyph = "#") <=> border

\* generate_map has produced a 5 by 4 map, which has interior tiles.
C5_Witness ==
    /\ op = "generate_map"
    /\ map_size = Vector(5, 4)
    /\ \E i \in 1..Len(map) : map[i].glyph = "."

\* The entities the claim says are drawn: those with a Pos, a Render and a
\* glyph among the five of the tileset.
C6_Drawable ==
    {e \in 1..Len(world.pos) :
        /\ world.pos[e] # <<>>
        /\ world.render[e] # <<>>
        /\ world.render[e][1].glyph \in {"#", "@", "g", ".", "%"}}

\* C6: when the tileset is loaded at the entity layer, that layer emits one
\* command per entity that has Pos and Render and a glyph of the tileset
\* (with or without Health), none for any other entity, and draw goes on to
\* the layers after it.
C6_EntityLayer ==
    (op = "draw" /\ Len(polls) >= 5 /\ polls[5] = "Loaded") =>
        LET drawn == CmdsOf("entities")
            Matches(c, e) ==
                /\ c.glyph = world.render[e][1].glyph
                /\ c.color = world.render[e][1].color
                /\ c.at = Vector(50 + 24 * world.pos[e][1].x,
                                 120 + 24 * world.pos[e][1].y)
        IN  /\ Len(drawn) = Cardinality(C6_Drawable)
            /\ \A e \in C6_Drawable : \E i \in 1..Len(drawn) : Matches(drawn[i], e)
            /\ \A i \in 1..Len(drawn) : \E e \in C6_Drawable : Matches(drawn[i], e)
            /\ Len(polls) = 6
            /\ Len(CmdsOf("health_full")) =
                   (IF world.health[player] # <<>> THEN 1 ELSE 0)

\* A draw with the tileset loaded where the first entity has a Pos and the
\* glyph 'z' and the player has no Health: only the player was drawn.
C6_Witness ==
    /\ op = "draw" /\ Len(polls) >= 5 /\ polls[5] = "Loaded"
    /\ IsSome(world.pos[1]) /\ IsSome(world.render[1])
    /\ Unwrap(world.render[1]).glyph = "z"
    /\ world.health[player] = None
    /\ Len(CmdsOf("entities")) = 1
    /\ CmdsOf("entities")[1].glyph = "@"

\* What C7 says of a draw call: it returns Ok; each text layer is emitted iff
\* the text asset was ready at its execute call, the map and the entity
\* layer only if the tileset was ready at theirs (the map then in full), and
\* the health bar iff the player has Health.
C7_LayersByReadiness ==
    /\ result = "Ok"
    /\ Len(polls) = 6
    /\ Len(CmdsOf("title")) = (IF polls[1] = "Loaded" THEN 1 ELSE 0)
    /\ Len(CmdsOf("mononoki_info")) = (IF polls[2] = "Loaded" THEN 1 ELSE 0)
    /\ Len(CmdsOf("square_info")) = (IF polls[3] = "Loaded" THEN 1 ELSE 0)
    /\ Len(CmdsOf("map")) = (IF polls[4] = "Loaded" THEN Len(map) ELSE 0)
    /\ (polls[5] # "Loaded" => Len(CmdsOf("entities")) = 0)
    /\ (polls[5] = "Loaded" =>
           Len(CmdsOf("entities")) = Cardinality(C6_Drawable))
    /\ Len(CmdsOf("inventory")) = (IF polls[6] = "Loaded" THEN 1 ELSE 0)
    /\ Len(CmdsOf("health_full")) =
           (IF world.health[player] # <<>> THEN 1 ELSE 0)
    /\ Len(CmdsOf("health_current")) =
           (IF world.health[player] # <<>> THEN 1 ELSE 0)

\* C7: every draw call that gets past window.clear, whatever the readiness
\* of the two assets when it runs, returns Ok, skips only the layers of an
\* asset that is not ready and emits the health bar whenever the player has
\* Health.
C7_NotReadyNeverFailsDraw ==
    (op = "draw" /\ steps = <<"clear">>) => C7_LayersByReadiness

\* What C8 says stays as Game::new left it.
C8_Fixed ==
    /\ Len(world.pos) = 5
    /\ Len(world.health) = 5
    /\ Len(world.render) = 5
    /\ player = 5
    /\ \A e \in 1..4 : world.pos[e] = GameWorld.pos[e]
    /\ world.health = GameWorld.health
    /\ world.render = GameWorld.render
    /\ map_size = Vector(20, 15)
    /\ map = GameMap
    /\ IsSome(world.pos[player])

\* C8: every update or draw call leaves the other entities' Pos, every
\* Health and Render, the set of entities, the player and the map as
\* Game::new left them, and a draw call changes nothing of the world.
C8_OnlyPlayerPosChanges ==
    [][/\ C8_Fixed
       /\ C8_Fixed'
       /\ (op' = "draw" => world' = world)]_vars

\* Updates have moved the player, swapped the inventory and closed the
\* window, and a draw call has followed.
C8_Witness ==
    /\ op = "draw"
    /\ Len(cmds) > 0
    /\ PlayerPos = Vector(4, 2)
    /\ inventory = InventorySwapped
    /\ closed

\* C9: every update call runs world.maintain() exactly once, as its last
\* step.
C9_MaintainOncePerUpdate ==
    op = "update" =>
        /\ Cardinality({i \in 1..Len(steps) : steps[i] = "maintain"}) = 1
        /\ steps[Len(steps)] = "maintain"

\* C10: every Health has 0 <= current <= max; the two 'g' entities hold
\* Health 1 of 1 and the player 3 of 5; the player is an entity with Pos,
\* Render and Health.
C10_HealthInRange ==
    /\ \A e \in 1..Len(world.health) :
          world.health[e] # <<>> =>
              /\ 0 <= world.health[e][1].current
              /\ world.health[e][1].current <= world.health[e][1].max
    /\ world.health[1] = <<[max |-> 1, current |-> 1]>>
    /\ world.health[2] = <<[max |-> 1, current |-> 1]>>
    /\ world.render[1][1].glyph = "g" /\ world.render[2][1].glyph = "g"
    /\ player \in 1..Len(world.pos)
    /\ world.health[player] = <<[max |-> 5, current |-> 3]>>
    /\ world.pos[player] # <<>>
    /\ world.render[player] # <<>>

\* After updates that moved the player and a draw that emitted the health
\* bar.
C10_Witness ==
    /\ op = "draw"
    /\ PlayerPos = Vector(6, 4)
    /\ Len(CmdsOf("health_current")) = 1

====
